---- MODULE Spec2Model ----
(***************************************************************************)
(* A model of pyflashair.py: the FlashAir directory-listing decoder        *)
(* (GetFileList, _DecodeAttributes, _DecodeDateAndTime), the recursive      *)
(* lister (RecursiveFileList) and the one-way synchroniser (Sync).          *)
(*                                                                         *)
(* Four specifications share the variables below:                          *)
(*   SpecCodec  one File record built from already split integer items     *)
(*   SpecParse  GetFileList reading one response line by line              *)
(*   SpecLs     RecursiveFileList over a remote tree                       *)
(*   SpecSync   Sync of a remote tree into a local file system, twice      *)
(* A specification keeps the variables of the others at their idle values. *)
(***************************************************************************)
EXTENDS Integers, Sequences, FiniteSets, TLC

VARIABLES
    cin,        \* codec: the integer items of one line [size, attr, d, t]
    cout,       \* codec: the File record built from cin, or the exception
    lines,      \* parse: the lines of the response read so far
    results,    \* parse: GetFileList's local list `results`
    pstatus,    \* parse: "reading", "returned" or the exception raised
    ret,        \* parse: the value GetFileList returned (a sequence)
    tree,       \* ls/sync: the remote root listing (a sequence of entries)
    stack,      \* ls/sync: the call stack of RecursiveFileList / Sync
    status,     \* ls/sync: "running", "done" or the exception raised
    out,        \* ls: what RecursiveFileList printed so far
    caseFold,   \* sync: the force_lowercase argument
    localDir,   \* sync: the local_dir argument of the top-level call
    fs,         \* sync: the local file system, path -> node
    ops,        \* sync: requests and file-system writes of the current run
    run         \* sync: 1 for the first Sync, 2 for the repeated one

vars == <<cin, cout, lines, results, pstatus, ret, tree, stack, status, out,
          caseFold, localDir, fs, ops, run>>

codecVars == <<cin, cout>>
parseVars == <<lines, results, pstatus, ret>>
treeVars  == <<tree, stack, status>>
syncVars  == <<caseFold, localDir, fs, ops, run>>

(***************************************************************************)
(* Integer helpers: Python's x >> n and x & mask on non-negative ints.     *)
(***************************************************************************)
RECURSIVE Pow2(_)
Pow2(n) == IF n = 0 THEN 1 ELSE 2 * Pow2(n - 1)

Shr(x, n) == x \div Pow2(n)

\* x & (2^k - 1)
LowBits(x, k) == x % Pow2(k)

\* bool(x & (1 << n))
Bit(x, n) == LowBits(Shr(x, n), 1) = 1

(***************************************************************************)
(* _DecodeAttributes                                                       *)
(***************************************************************************)
DecodeAttributesMut(attr) ==
    [archive |-> Bit(attr, 5), dir |-> Bit(attr, 4), volume |-> Bit(attr, 3),
     system |-> Bit(attr, 1), hidden |-> Bit(attr, 2), ro |-> Bit(attr, 0)]

DecodeAttributes(attr) ==
    [archive |-> Bit(attr, 5),
     dir     |-> Bit(attr, 4),
     volume  |-> Bit(attr, 3),
     system  |-> Bit(attr, 2),
     hidden  |-> Bit(attr, 1),
     ro      |-> Bit(attr, 0)]

(***************************************************************************)
(* datetime.datetime(year, month, day, hour, minute, second): the          *)
(* constructor raises ValueError unless the fields form a calendar date    *)
(* and a time of day.                                                      *)
(***************************************************************************)
IsLeap(y) == (y % 4 = 0) /\ ((y % 100 # 0) \/ (y % 400 = 0))

DaysInMonth(y, m) ==
    IF m = 2 THEN (IF IsLeap(y) THEN 29 ELSE 28)
    ELSE IF m \in {4, 6, 9, 11} THEN 30 ELSE 31

ValidDateTime(year, month, day, hour, minute, second) ==
    /\ year \in 1..9999
    /\ month \in 1..12
    /\ day >= 1 /\ day <= DaysInMonth(year, month)
    /\ hour \in 0..23
    /\ minute \in 0..59
    /\ second \in 0..59

DateTime(year, month, day, hour, minute, second) ==
    IF ValidDateTime(year, month, day, hour, minute, second)
    THEN [err |-> "none",
          value |-> [year |-> year, month |-> month, day |-> day,
                     hour |-> hour, minute |-> minute, second |-> second]]
    ELSE [err |-> "ValueError"]

(***************************************************************************)
(* _DecodeDateAndTime                                                      *)
(***************************************************************************)
DecodeDateAndTimeMut(d, t) ==
    DateTime(LowBits(Shr(d, 9), 7) + 1980, LowBits(Shr(d, 5), 4), LowBits(d, 5),
             LowBits(Shr(t, 11), 5), LowBits(Shr(t, 5), 6), LowBits(t, 5))

DecodeDateAndTime(d, t) ==
    LET year   == LowBits(Shr(d, 9), 7) + 1980
        month  == LowBits(Shr(d, 5), 4)
        day    == LowBits(d, 5)
        hour   == LowBits(Shr(t, 11), 5)
        minute == LowBits(Shr(t, 5), 6)
        second == LowBits(t, 5) * 2
    IN  DateTime(year, month, day, hour, minute, second)

(***************************************************************************)
(* The File(...) construction of GetFileList from the converted items: the *)
(* record, or the exception that _DecodeDateAndTime let through.           *)
(***************************************************************************)
FileRecord(dir, name, size, attr, d, t) ==
    LET dt == DecodeDateAndTime(d, t)
    IN  IF dt.err # "none"
        THEN [err |-> dt.err]
        ELSE [err |-> "none",
              file |-> [dir |-> dir, name |-> name, size |-> size,
                        attr |-> DecodeAttributes(attr), datetime |-> dt.value]]

(***************************************************************************)
(* Idle values: what a specification leaves the other parts at.            *)
(***************************************************************************)
Pending == [err |-> "pending"]

IdleCodec == cin = [size |-> 0, attr |-> 0, d |-> 0, t |-> 0] /\ cout = Pending
IdleParse == lines = <<>> /\ results = <<>> /\ pstatus = "idle" /\ ret = <<>>
IdleTree  == tree = <<>> /\ stack = <<>> /\ status = "idle" /\ out = <<>>
IdleSync  == /\ caseFold = FALSE /\ localDir = <<>> /\ fs = <<>>
             /\ ops = <<>> /\ run = 0

(***************************************************************************)
(* SpecCodec: the File record of one line whose items are already integers. *)
(* Every attribute byte is tried with one date, and every 16-bit date with  *)
(* the sample times, and every 16-bit time with the sample dates.           *)
(***************************************************************************)
MaxAttr == 63
MaxPacked == 65535

\* 1980-01-01 and 2020-03-15, 00:00:00 and 10:30:00 in the packed format.
DateSamples == {33, 40 * 512 + 3 * 32 + 15}
TimeSamples == {0, 10 * 2048 + 30 * 32 + 0}

InitCodec ==
    /\ \/ \E a \in 0..MaxAttr :
             cin = [size |-> 1, attr |-> a, d |-> 33, t |-> 0]
       \/ \E d \in 0..MaxPacked, t \in TimeSamples :
             cin = [size |-> 1, attr |-> 32, d |-> d, t |-> t]
       \/ \E d \in DateSamples, t \in 0..MaxPacked :
             cin = [size |-> 1, attr |-> 32, d |-> d, t |-> t]
    /\ cout = Pending
    /\ IdleParse /\ IdleTree /\ IdleSync

BuildFile ==
    /\ cout = Pending
    /\ cout' = FileRecord(<<>>, <<>>, cin.size, cin.attr, cin.d, cin.t)
    /\ UNCHANGED <<cin, parseVars, treeVars, out, syncVars>>

NextCodec == BuildFile

SpecCodec == InitCodec /\ [][NextCodec]_vars

(***************************************************************************)
(* Strings are sequences of one-character strings.                         *)
(***************************************************************************)
Comma == ","
Digits == <<"0", "1", "2", "3", "4", "5", "6", "7", "8", "9">>

IsDigit(c) == \E i \in 1..10 : Digits[i] = c
DigitVal(c) == (CHOOSE i \in 1..10 : Digits[i] = c) - 1

HasComma(s) == \E i \in 1..Len(s) : s[i] = Comma
LastComma(s) == CHOOSE i \in 1..Len(s) :
                    s[i] = Comma /\ \A j \in (i + 1)..Len(s) : s[j] # Comma

\* str.rsplit(',', maxsplit)
RECURSIVE rsplit(_, _)
rsplit(s, maxsplit) ==
    IF maxsplit = 0 \/ ~HasComma(s)
    THEN <<s>>
    ELSE LET p == LastComma(s)
         IN  Append(rsplit(SubSeq(s, 1, p - 1), maxsplit - 1),
                    SubSeq(s, p + 1, Len(s)))

\* int(s) on a string of the model's alphabet: ValueError unless decimal digits
IntOk(s) == Len(s) > 0 /\ \A i \in 1..Len(s) : IsDigit(s[i])

RECURSIVE IntOf(_)
IntOf(s) == IF Len(s) = 0 THEN 0
            ELSE 10 * IntOf(SubSeq(s, 1, Len(s) - 1)) + DigitVal(s[Len(s)])

(***************************************************************************)
(* GetFileList, the body of the loop for one line (Python items[k] is      *)
(* items[k + 1] here).  The arguments of File(...) are evaluated left to    *)
(* right; the first one to raise decides the exception.                     *)
(***************************************************************************)
SplitCount == 6

ParseLine(line) ==
    LET items == rsplit(line, SplitCount)
        n == Len(items)
    IN  IF n < 3 THEN [err |-> "IndexError"]
        ELSE IF ~IntOk(items[3]) THEN [err |-> "ValueError"]
        ELSE IF n < 4 THEN [err |-> "IndexError"]
        ELSE IF ~IntOk(items[4]) THEN [err |-> "ValueError"]
        ELSE IF n < 5 THEN [err |-> "IndexError"]
        ELSE IF ~IntOk(items[5]) THEN [err |-> "ValueError"]
        ELSE IF n < 6 THEN [err |-> "IndexError"]
        ELSE IF ~IntOk(items[6]) THEN [err |-> "ValueError"]
        ELSE FileRecord(items[1], items[2], IntOf(items[3]), IntOf(items[4]),
                        IntOf(items[5]), IntOf(items[6]))

(***************************************************************************)
(* SpecParse: one call of GetFileList.  The response is revealed to the    *)
(* model as the code consumes it: its first line at the call, each data    *)
(* line when the loop reaches it, its end when the loop ends.              *)
(***************************************************************************)
MaxLines == 2
MaxFields == 7

Header == <<"W", "L", "A", "N", "S", "D", "_", "F", "I", "L", "E", "L", "I", "S", "T">>
BadHeader == <<"W", "L", "A", "N", "S", "D">>

\* the fields a device line is made of: a name-like text and a number
Fields == {<<"a">>, <<"3", "3">>}

RECURSIVE JoinComma(_)
JoinComma(fields) ==
    IF Len(fields) = 0 THEN <<>>
    ELSE IF Len(fields) = 1 THEN fields[1]
    ELSE JoinComma(SubSeq(fields, 1, Len(fields) - 1)) \o <<Comma>>
         \o fields[Len(fields)]

DataLines == {JoinComma(f) : f \in UNION {[1..n -> Fields] : n \in 1..MaxFields}}

InitParse ==
    /\ lines \in {<<>>, <<Header>>, <<BadHeader>>}
    /\ results = <<>>
    /\ pstatus = "called"
    /\ ret = <<>>
    /\ IdleCodec /\ IdleTree /\ IdleSync

\* lines 88-90: lines[0] of an empty response raises IndexError
CheckHeader ==
    /\ pstatus = "called"
    /\ pstatus' = IF Len(lines) = 0 THEN "IndexError"
                  ELSE IF lines[1] # Header THEN "AssertionError"
                  ELSE "reading"
    /\ UNCHANGED <<lines, results, ret, codecVars, treeVars, out, syncVars>>

\* lines 91-98: one iteration of the loop
ReadLine ==
    /\ pstatus = "reading"
    /\ Len(lines) <= MaxLines
    /\ \E line \in DataLines :
          LET r == ParseLine(line)
          IN  /\ lines' = Append(lines, line)
              /\ IF r.err = "none"
                 THEN results' = Append(results, r.file) /\ pstatus' = pstatus
                 ELSE results' = results /\ pstatus' = r.err
    /\ UNCHANGED <<ret, codecVars, treeVars, out, syncVars>>

\* line 99: the loop is over, the list is returned
ReturnResults ==
    /\ pstatus = "reading"
    /\ pstatus' = "returned"
    /\ ret' = results
    /\ UNCHANGED <<lines, results, codecVars, treeVars, out, syncVars>>

NextParse == CheckHeader \/ ReadLine \/ ReturnResults

SpecParse == InitParse /\ [][NextParse]_vars

(***************************************************************************)
(* The remote card: a tree of listings.  An entry is what one line of a    *)
(* listing describes, with the listing of the directory it names.  Names   *)
(* are path segments; "A" and "a" differ only in letter case.              *)
(***************************************************************************)
MaxSize == 2

Names == {"A", "a"}
Sizes == 1..MaxSize

FileEntries ==
    {[name |-> n, dir |-> FALSE, size |-> s, children |-> <<>>] :
        n \in Names, s \in Sizes}

DirEntries(sub) ==
    {[name |-> n, dir |-> TRUE, size |-> 0, children |-> c] :
        n \in Names, c \in sub}

DistinctNames(l) ==
    \A i, j \in 1..Len(l) : i # j => l[i].name # l[j].name

\* the listings of at most one entry, and those of any number of entries
ShortListings(E) == {<<>>} \cup {<<e>> : e \in E}
Listings(E) ==
    {l \in UNION {[1..k -> E] : k \in 0..Cardinality(Names)} : DistinctNames(l)}

LeafListings == ShortListings(FileEntries)
MidListings == ShortListings(FileEntries \cup DirEntries(LeafListings))

\* directories nest one deep for Sync and two deep for RecursiveFileList
SyncTrees == Listings(FileEntries \cup DirEntries(LeafListings))
LsTrees == Listings(FileEntries \cup DirEntries(MidListings))

\* the listing of the remote directory `path` (a sequence of names)
RECURSIVE ListingAt(_, _)
ListingAt(t, path) ==
    IF Len(path) = 0 THEN t
    ELSE LET e == CHOOSE x \in {t[i] : i \in 1..Len(t)} :
                      x.name = path[1] /\ x.dir
         IN  ListingAt(e.children, Tail(path))

\* GetFileList on a well-formed response: one File per entry, in order
GetFileList(directory) ==
    LET l == ListingAt(tree, directory)
    IN  [i \in 1..Len(l) |->
            [name |-> l[i].name, size |-> l[i].size, dir |-> l[i].dir]]

Top == stack[Len(stack)]
Pop == SubSeq(stack, 1, Len(stack) - 1)
SetTop(f) == [stack EXCEPT ![Len(stack)] = f]

(***************************************************************************)
(* SpecLs: RecursiveFileList(<<>>).  A frame is one activation:            *)
(* [directory, levels, files, i, pc]; i is the next entry of the loop.     *)
(***************************************************************************)
LsFrame(directory, levels) ==
    [directory |-> directory, levels |-> levels, files |-> <<>>, i |-> 1,
     pc |-> "call"]

InitLs ==
    /\ tree \in LsTrees
    /\ stack = <<LsFrame(<<>>, 0)>>
    /\ status = "running"
    /\ out = <<>>
    /\ IdleCodec /\ IdleParse /\ IdleSync

\* line 103: the listing is fetched when the activation starts
LsCall ==
    /\ status = "running"
    /\ Top.pc = "call"
    /\ stack' = SetTop([Top EXCEPT !.files = GetFileList(Top.directory),
                                   !.pc = "loop"])
    /\ UNCHANGED <<tree, status, out, codecVars, parseVars, syncVars>>

LsChildLevelsMut(levels) == levels
LsChildLevels(levels) == levels + 1

\* lines 104-113: print the entry; a directory is entered at once
LsEntry ==
    /\ status = "running"
    /\ Top.pc = "loop"
    /\ Top.i <= Len(Top.files)
    /\ LET f == Top.files[Top.i]
           next == [Top EXCEPT !.i = Top.i + 1]
       IN  /\ out' = Append(out, [levels |-> Top.levels,
                                  directory |-> Top.directory,
                                  name |-> f.name, dir |-> f.dir,
                                  size |-> f.size])
           /\ stack' = IF f.dir
                       THEN Append(SetTop(next),
                                   LsFrame(Append(Top.directory, f.name),
                                           LsChildLevels(Top.levels)))
                       ELSE SetTop(next)
    /\ UNCHANGED <<tree, status, codecVars, parseVars, syncVars>>

\* the loop of line 103 is over: the activation returns
LsReturn ==
    /\ status = "running"
    /\ Top.pc = "loop"
    /\ Top.i > Len(Top.files)
    /\ stack' = Pop
    /\ status' = IF Len(stack) = 1 THEN "done" ELSE status
    /\ UNCHANGED <<tree, out, codecVars, parseVars, syncVars>>

NextLs == LsCall \/ LsEntry \/ LsReturn

SpecLs == InitLs /\ [][NextLs]_vars

(***************************************************************************)
(* The local file system: a function from the paths that exist to nodes    *)
(* [dir, size]; size is what os.stat reports as st_size.  A path is a      *)
(* sequence of segments, <<>> the root.                                    *)
(***************************************************************************)
\* st_size of a directory depends on the file system; all that matters is
\* whether it equals a listed size, and MaxSize makes both cases happen
DirStSize == MaxSize

DirNode == [dir |-> TRUE, size |-> DirStSize]
FileNode(size) == [dir |-> FALSE, size |-> size]

Parent(p) == SubSeq(p, 1, Len(p) - 1)

\* os.path.exists, os.path.isdir, os.stat(p).st_size
Exists(f, p) == p \in DOMAIN f
IsDir(f, p) == p \in DOMAIN f /\ f[p].dir
StSize(f, p) == f[p].size

\* os.mkdir(p) raises OSError unless p is absent and its parent a directory
CanMkdir(f, p) == ~Exists(f, p) /\ IsDir(f, Parent(p))
\* open(p, 'wb') raises IOError if p is a directory or its parent is none
CanOpenW(f, p) == IsDir(f, Parent(p)) /\ ~IsDir(f, p)

Put(f, p, node) == [q \in DOMAIN f \cup {p} |-> IF q = p THEN node ELSE f[q]]

\* os.path.join(dir, name) for a name that is one segment
Join(dir, name) == Append(dir, name)

\* str.lower() on the model's alphabet, for a segment and for a whole path
LowerName(n) == IF n = "A" THEN "a" ELSE IF n = "D" THEN "d" ELSE n
LowerPath(p) == [i \in 1..Len(p) |-> LowerName(p[i])]

\* lines 125-127
LocalFile(local_dir, name, force_lowercase) ==
    IF force_lowercase THEN LowerPath(Join(local_dir, name))
    ELSE Join(local_dir, name)

\* line 118: the test that lets Sync go on
LocalDirOkMut(f, local_dir) == TRUE
LocalDirOk(f, local_dir) == Exists(f, local_dir)

\* lines 129-132: the assert fails when the path exists and is no directory
DirConflictMut(f, local_file) == FALSE
DirConflict(f, local_file) == ~IsDir(f, local_file)

\* lines 135-140: the value of `fetch`
NeedFetchAbsentOnly(f, local_file, size) == ~Exists(f, local_file)
NeedFetchSmaller(f, local_file, size) ==
    ~Exists(f, local_file) \/ StSize(f, local_file) < size
NeedFetch(f, local_file, size) ==
    \/ ~Exists(f, local_file)
    \/ StSize(f, local_file) # size

\* _GetFile: the card returns the file's content, as long as the listing said
RECURSIVE EntryAt(_, _)
EntryAt(t, path) ==
    LET e == CHOOSE x \in {t[i] : i \in 1..Len(t)} : x.name = path[1]
    IN  IF Len(path) = 1 THEN e ELSE EntryAt(e.children, Tail(path))

GetFile(path) == EntryAt(tree, path).size

Op(op, path, size) == [op |-> op, path |-> path, size |-> size]

(***************************************************************************)
(* The local file systems Sync may start from: below the root, D and d,    *)
(* each absent, a directory or a regular file; one of the directories may  *)
(* already hold A and a, as files of any size or as directories, and a/a.  *)
(***************************************************************************)
LocalDirs == {<<"D">>, <<"d">>}

TopOptions(p) == {{}, {<<p, DirNode>>}, {<<p, FileNode(1)>>}}

LowerOptions(x) ==
    LET a == Join(x, "a")
    IN  {{}} \cup {{<<a, FileNode(s)>>} : s \in Sizes}
        \cup {{<<a, DirNode>>}}
        \cup {{<<a, DirNode>>, <<Join(a, "a"), FileNode(s)>>} : s \in Sizes}

UpperOptions(x) ==
    LET a == Join(x, "A")
    IN  {{}} \cup {{<<a, FileNode(s)>>} : s \in Sizes} \cup {{<<a, DirNode>>}}

FsOf(pairs) ==
    [p \in {x[1] : x \in pairs} |-> (CHOOSE x \in pairs : x[1] = p)[2]]

InitialFs ==
    UNION {
      {FsOf({<< <<>>, DirNode >>} \cup tu \cup tl \cup lo \cup up) :
          lo \in IF <<x, DirNode>> \in tu \cup tl THEN LowerOptions(x) ELSE {{}},
          up \in IF <<x, DirNode>> \in tu \cup tl THEN UpperOptions(x) ELSE {{}}} :
      tu \in TopOptions(<<"D">>), tl \in TopOptions(<<"d">>), x \in LocalDirs}

(***************************************************************************)
(* SpecSync: Sync(<<>>, localDir, caseFold), and once it has returned, the *)
(* same call again.  A frame is one activation:                            *)
(* [remote_dir, local_dir, files, i, pc]; i is the next entry of the loop. *)
(***************************************************************************)
SyncFrame(remote_dir, local_dir) ==
    [remote_dir |-> remote_dir, local_dir |-> local_dir, files |-> <<>>,
     i |-> 1, pc |-> "call"]

InitSync ==
    /\ tree \in SyncTrees
    /\ caseFold \in BOOLEAN
    /\ localDir \in LocalDirs
    /\ fs \in InitialFs
    /\ stack = <<SyncFrame(<<>>, localDir)>>
    /\ status = "running"
    /\ ops = <<>>
    /\ run = 1
    /\ out = <<>>
    /\ IdleCodec /\ IdleParse

\* lines 117-120: the target must exist, then the listing is requested
SyncCall ==
    /\ status = "running"
    /\ Top.pc = "call"
    /\ IF ~LocalDirOk(fs, Top.local_dir)
       THEN /\ status' = "ValueError"
            /\ UNCHANGED <<stack, ops>>
       ELSE /\ ops' = Append(ops, Op("list", Top.remote_dir, 0))
            /\ stack' = SetTop([Top EXCEPT !.files = GetFileList(Top.remote_dir),
                                           !.pc = "loop"])
            /\ status' = status
    /\ UNCHANGED <<tree, out, caseFold, localDir, fs, run, codecVars, parseVars>>

\* lines 122-133: an entry that is a directory
SyncDir ==
    /\ status = "running"
    /\ Top.pc = "loop"
    /\ Top.i <= Len(Top.files)
    /\ Top.files[Top.i].dir
    /\ LET f == Top.files[Top.i]
           remote_file == Join(Top.remote_dir, f.name)
           local_file == LocalFile(Top.local_dir, f.name, caseFold)
           recurse == Append(SetTop([Top EXCEPT !.i = Top.i + 1]),
                             SyncFrame(remote_file, local_file))
       IN  IF ~Exists(fs, local_file)
           THEN IF CanMkdir(fs, local_file)
                THEN /\ fs' = Put(fs, local_file, DirNode)
                     /\ ops' = Append(ops, Op("mkdir", local_file, 0))
                     /\ stack' = recurse
                     /\ status' = status
                ELSE /\ status' = "OSError"
                     /\ UNCHANGED <<fs, ops, stack>>
           ELSE IF DirConflict(fs, local_file)
                THEN /\ status' = "AssertionError"
                     /\ UNCHANGED <<fs, ops, stack>>
                ELSE /\ stack' = recurse
                     /\ UNCHANGED <<fs, ops, status>>
    /\ UNCHANGED <<tree, out, caseFold, localDir, run, codecVars, parseVars>>

\* lines 122-127 and 134-144: an entry that is a regular file
SyncFile ==
    /\ status = "running"
    /\ Top.pc = "loop"
    /\ Top.i <= Len(Top.files)
    /\ ~Top.files[Top.i].dir
    /\ LET f == Top.files[Top.i]
           remote_file == Join(Top.remote_dir, f.name)
           local_file == LocalFile(Top.local_dir, f.name, caseFold)
           fetched == Append(ops, Op("fetch", remote_file, 0))
           contents == GetFile(remote_file)
       IN  IF NeedFetch(fs, local_file, f.size)
           THEN IF CanOpenW(fs, local_file)
                THEN /\ fs' = Put(fs, local_file, FileNode(contents))
                     /\ ops' = Append(fetched, Op("write", local_file, contents))
                     /\ stack' = SetTop([Top EXCEPT !.i = Top.i + 1])
                     /\ status' = status
                ELSE /\ ops' = fetched
                     /\ status' = "IOError"
                     /\ UNCHANGED <<fs, stack>>
           ELSE /\ stack' = SetTop([Top EXCEPT !.i = Top.i + 1])
                /\ UNCHANGED <<fs, ops, status>>
    /\ UNCHANGED <<tree, out, caseFold, localDir, run, codecVars, parseVars>>

\* the loop of line 121 is over: the activation returns
SyncReturn ==
    /\ status = "running"
    /\ Top.pc = "loop"
    /\ Top.i > Len(Top.files)
    /\ stack' = Pop
    /\ status' = IF Len(stack) = 1 THEN "done" ELSE status
    /\ UNCHANGED <<tree, out, syncVars, codecVars, parseVars>>

\* the caller repeats the call with the same arguments
SyncAgain ==
    /\ status = "done"
    /\ run = 1
    /\ run' = 2
    /\ ops' = <<>>
    /\ stack' = <<SyncFrame(<<>>, localDir)>>
    /\ status' = "running"
    /\ UNCHANGED <<tree, out, caseFold, localDir, fs, codecVars, parseVars>>

NextSync == SyncCall \/ SyncDir \/ SyncFile \/ SyncReturn \/ SyncAgain

SpecSync == InitSync /\ [][NextSync]_vars

(***************************************************************************)
(* Properties.                                                             *)
(***************************************************************************)
IsPrefix(p, q) == Len(p) <= Len(q) /\ SubSeq(q, 1, Len(p)) = p

Running == status = "running" /\ Len(stack) > 0
AtEntry == Running /\ Top.pc = "loop" /\ Top.i <= Len(Top.files)
IsFileStep == AtEntry /\ ~Top.files[Top.i].dir
IsDirStep == AtEntry /\ Top.files[Top.i].dir

\* the entry the loop is at, its remote path and its local path
CurFile == Top.files[Top.i]
CurRemote == Join(Top.remote_dir, CurFile.name)
CurLocal == LocalFile(Top.local_dir, CurFile.name, caseFold)

\* what the step added to the log
FetchIssued == Len(ops') > Len(ops) /\ ops'[Len(ops) + 1] = Op("fetch", CurRemote, 0)
Overwritten == \E k \in (Len(ops) + 1)..Len(ops') :
                   ops'[k].op = "write" /\ ops'[k].path = CurLocal
SizeDiffers == ~Exists(fs, CurLocal) \/ StSize(fs, CurLocal) # CurFile.size

\* C1 as stated: for a record that is not a directory the fetch is issued and
\* the local path overwritten if and only if the local path is absent or its
\* size differs from the listed one; otherwise nothing is fetched or changed.
C1_FetchAndWriteIffDiffers ==
    [][IsFileStep =>
          /\ (FetchIssued /\ Overwritten) <=> SizeDiffers
          /\ ~SizeDiffers => (~FetchIssued /\ fs' = fs)]_vars

\* C1 as amended: the fetch is issued if and only if the local path is absent
\* or its size differs; the local path is overwritten with the fetched content
\* exactly when the fetch was issued and the path can be opened for writing,
\* and otherwise the file system is unchanged and, after a fetch, Sync fails.
C1_FetchIffDiffers ==
    [][IsFileStep =>
          /\ FetchIssued <=> SizeDiffers
          /\ Overwritten <=> (SizeDiffers /\ CanOpenW(fs, CurLocal))
          /\ Overwritten =>
                /\ fs'[CurLocal] = FileNode(CurFile.size)
                /\ \A p \in DOMAIN fs \ {CurLocal} : p \in DOMAIN fs' /\ fs'[p] = fs[p]
                /\ DOMAIN fs' = DOMAIN fs \cup {CurLocal}
          /\ ~Overwritten => fs' = fs
          /\ (FetchIssued /\ ~Overwritten) => status' = "IOError"]_vars

\* one run in which one root file was fetched and written and another skipped
C1_Witness ==
    /\ status = "done" /\ run = 1
    /\ \E k \in 1..Len(ops) : ops[k].op = "write"
    /\ \E i \in 1..Len(tree) :
          /\ ~tree[i].dir
          /\ \A k \in 1..Len(ops) : ops[k] # Op("fetch", <<tree[i].name>>, 0)

C3_MissingTarget ==
    /\ [](status = "ValueError" =>
             ops = <<>> /\ run = 1 /\ Len(stack) = 1 /\ ~Exists(fs, localDir))
    /\ [](\A k \in 1..Len(ops) : ops[k].op \in {"mkdir", "write"} =>
                                   ops[k].path # localDir)
    /\ [][(Running /\ Top.pc = "call" /\ ~Exists(fs, Top.local_dir)) =>
             (status' = "ValueError" /\ fs' = fs /\ ops' = ops)]_vars
    /\ [][~Exists(fs, localDir) => ~Exists(fs', localDir)]_vars

C3_Witness ==
    /\ status = "ValueError"
    /\ ~Exists(fs, localDir)
    /\ Len(tree) > 0
    /\ ops = <<>>

\* the remote path of a printed entry, and the entries of the whole tree
OutPath(e) == Append(e.directory, e.name)

RECURSIVE PathsUnder(_, _)
PathsUnder(t, prefix) ==
    UNION {{Append(prefix, t[i].name)}
           \cup PathsUnder(t[i].children, Append(prefix, t[i].name)) :
           i \in 1..Len(t)}

\* the position of `name` in the listing of `directory`
IndexIn(directory, name) ==
    LET l == ListingAt(tree, directory)
    IN  CHOOSE i \in 1..Len(l) : l[i].name = name

\* C4: RecursiveFileList prints in depth-first pre-order: a directory before
\* every entry of its subtree, its whole subtree before its next sibling,
\* siblings in listing order, depth 0 at the root and one more than the parent
\* below it; when it returns every entry has been printed exactly once.
C4_PreOrder ==
    /\ \A k \in 1..Len(out) :
          IF out[k].directory = <<>>
          THEN out[k].levels = 0
          ELSE \E j \in 1..(k - 1) :
                  /\ OutPath(out[j]) = out[k].directory
                  /\ out[j].dir
                  /\ out[k].levels = out[j].levels + 1
    /\ \A i, j, k \in 1..Len(out) :
          (i < k /\ k < j /\ IsPrefix(OutPath(out[i]), out[j].directory))
             => IsPrefix(OutPath(out[i]), out[k].directory)
    /\ \A i, j \in 1..Len(out) :
          (i < j /\ out[i].directory = out[j].directory)
             => IndexIn(out[i].directory, out[i].name)
                  < IndexIn(out[j].directory, out[j].name)
    /\ \A k \in 1..Len(out) : OutPath(out[k]) \in PathsUnder(tree, <<>>)
    /\ status = "done" =>
          /\ {OutPath(out[k]) : k \in 1..Len(out)} = PathsUnder(tree, <<>>)
          /\ Len(out) = Cardinality(PathsUnder(tree, <<>>))

\* a directory, an entry two levels below it, then the directory's sibling
C4_Witness ==
    /\ status = "done"
    /\ Len(out) >= 4
    /\ out[1].dir /\ out[1].levels = 0
    /\ out[3].levels = 2
    /\ out[Len(out)].levels = 0

\* every regular file of the remote tree, with its remote path
RECURSIVE FilesUnder(_, _)
FilesUnder(t, prefix) ==
    UNION {IF t[i].dir
           THEN FilesUnder(t[i].children, Append(prefix, t[i].name))
           ELSE {[path |-> Append(prefix, t[i].name), size |-> t[i].size]} :
           i \in 1..Len(t)}

\* the local path Sync computes for a remote path, level by level
RECURSIVE ComputedLocal(_)
ComputedLocal(rpath) ==
    IF Len(rpath) = 0 THEN localDir
    ELSE LocalFile(ComputedLocal(Parent(rpath)), rpath[Len(rpath)], caseFold)

NoFetchNoMkdir == \A k \in 1..Len(ops) : ops[k].op \notin {"fetch", "mkdir"}

\* the local path Sync computes for r exists and os.stat reports r's size
Mirrored(r) ==
    /\ Exists(fs, ComputedLocal(r.path))
    /\ StSize(fs, ComputedLocal(r.path)) = r.size

\* C9 as stated: after a Sync that returned, every remote regular file has a
\* local counterpart of the listed size at its computed local path, and the
\* repeated Sync issues no fetch and creates no directory; for caseFold false
\* and true, also when two names of a directory differ only in letter case.
C9_Converges ==
    /\ status = "done" => \A r \in FilesUnder(tree, <<>>) : Mirrored(r)
    /\ run = 2 => NoFetchNoMkdir

\* no two remote regular files of different listed sizes share a local path
NoSizeClash ==
    \A r1, r2 \in FilesUnder(tree, <<>>) :
       ComputedLocal(r1.path) = ComputedLocal(r2.path) => r1.size = r2.size

\* C9 as amended: the same, provided no two remote regular files of different
\* listed sizes have the same computed local path (with caseFold, paths that
\* differ only in letter case are the same local path).
C9_ConvergesUnlessClash ==
    NoSizeClash =>
       /\ status = "done" => \A r \in FilesUnder(tree, <<>>) : Mirrored(r)
       /\ run = 2 => NoFetchNoMkdir

\* the repeated Sync has returned, with caseFold, for two remote files whose
\* names differ only in letter case
C9_Witness ==
    /\ status = "done" /\ run = 2 /\ caseFold
    /\ Len(tree) = 2
    /\ ~tree[1].dir /\ ~tree[2].dir
    /\ tree[1].name # tree[2].name
    /\ LowerName(tree[1].name) = LowerName(tree[2].name)

\* C10: every directory Sync creates and every file it writes lies inside the
\* tree rooted at the local_dir of the top-level call.
C10_InsideLocalDir ==
    \A k \in 1..Len(ops) :
       ops[k].op \in {"mkdir", "write"} => IsPrefix(localDir, ops[k].path)

\* the comma-separated fields of a line, all of them
AllFields(line) == rsplit(line, Len(line))

\* the last four fields are decimal numbers
TrailingNumeric(line) ==
    LET f == AllFields(line)
        n == Len(f)
    IN  n >= 6 /\ \A k \in (n - 3)..n : IntOk(f[k])

\* directory,name,size,attrByte,datePacked,timePacked, where a comma inside
\* directory or name adds fields in front of the four numbers
WellFormed(line) == Len(AllFields(line)) >= 6 /\ TrailingNumeric(line)

DataLineAt(k) == lines[k + 1]
NumDataLines == Len(lines) - 1

\* C5: GetFileList returns one record per data line, in order, only when the
\* first line is WLANSD_FILELIST and every data line has its fields with
\* numeric size, attribute, date and time; another first line is rejected
\* (the assert), and a malformed data line fails the whole call (IndexError
\* or ValueError) with nothing returned.
C5_AllOrNothing ==
    /\ pstatus = "returned" =>
          /\ lines[1] = Header
          /\ Len(ret) = NumDataLines
          /\ \A k \in 1..NumDataLines :
                /\ WellFormed(DataLineAt(k))
                /\ ParseLine(DataLineAt(k)).err = "none"
                /\ ret[k] = ParseLine(DataLineAt(k)).file
    /\ (pstatus \notin {"idle", "called"} /\ Len(lines) > 0 /\ lines[1] # Header)
          => pstatus = "AssertionError"
    /\ (\E k \in 1..NumDataLines : ~WellFormed(DataLineAt(k)))
          => (pstatus \in {"IndexError", "ValueError"} /\ ret = <<>>)
    /\ pstatus # "returned" => ret = <<>>

\* C6: a data line whose directory or name holds a comma and whose four
\* trailing fields are numbers gives a record whose size, attributes and
\* timestamp come from the last four fields and whose directory and name keep
\* the comma.
C6_EmbeddedComma ==
    \A k \in 1..NumDataLines :
       LET f == AllFields(DataLineAt(k))
           n == Len(f)
           want == FileRecord(<<>>, <<>>, IntOf(f[n - 3]), IntOf(f[n - 2]),
                              IntOf(f[n - 1]), IntOf(f[n]))
       IN  (n > 6 /\ TrailingNumeric(DataLineAt(k)) /\ want.err = "none") =>
              /\ pstatus \in {"reading", "returned"}
              /\ Len(results) >= k
              /\ results[k].size = want.file.size
              /\ results[k].attr = want.file.attr
              /\ results[k].datetime = want.file.datetime
              /\ JoinComma(<<results[k].dir, results[k].name>>)
                    = JoinComma(SubSeq(f, 1, n - 4))

Flag(b) == IF b THEN 1 ELSE 0

\* C8: for an attribute byte in 0..63 each of the six flags is true exactly
\* when its bit is set: bit 5 archive, bit 4 directory, bit 3 volume label,
\* bit 2 system, bit 1 hidden, bit 0 read-only.
C8_AttributeBits ==
    cout.err = "none" =>
       LET a == cout.file.attr
       IN  32 * Flag(a.archive) + 16 * Flag(a.dir) + 8 * Flag(a.volume)
           + 4 * Flag(a.system) + 2 * Flag(a.hidden) + Flag(a.ro)
             = cin.attr % 64

\* the byte 0b100001: archive and read-only, nothing else
C8_Witness ==
    /\ cout.err = "none"
    /\ cin.attr = 33
    /\ cout.file.attr = [archive |-> TRUE, dir |-> FALSE, volume |-> FALSE,
                         system |-> FALSE, hidden |-> FALSE, ro |-> TRUE]

\* the fields of a 16-bit date and time, by division
RawMonth == (cin.d % 512) \div 32
RawDay == cin.d % 32
RawHour == (cin.t % 65536) \div 2048
RawMinute == (cin.t % 2048) \div 32
RawSecond == (cin.t % 32) * 2

RawInvalid ==
    \/ RawMonth = 0 \/ RawMonth > 12
    \/ RawDay = 0
    \/ RawDay > DaysInMonth(1980 + (cin.d % 65536) \div 512, RawMonth)
    \/ RawHour > 23 \/ RawMinute > 59 \/ RawSecond > 59

\* C7: the decoded fields are exactly the bit fields of the two 16-bit values
\* (packing them again gives the values back), and fields that form no
\* calendar date and time make the decode, and the listing, fail with
\* ValueError: no timestamp is returned for them, clamped or otherwise.
C7_DateTimeDecode ==
    cout # Pending =>
       /\ cout.err \in {"none", "ValueError"}
       /\ RawInvalid <=> cout.err = "ValueError"
       /\ cout.err = "none" =>
             LET v == cout.file.datetime
             IN  /\ (v.year - 1980) * 512 + v.month * 32 + v.day = cin.d % 65536
                 /\ v.hour * 2048 + v.minute * 32 + v.second \div 2
                       = cin.t % 65536
                 /\ v.second % 2 = 0
                 /\ v.year \in 1980..2107
                 /\ v.month \in 1..12 /\ v.day \in 1..31
                 /\ v.hour \in 0..23 /\ v.minute \in 0..59 /\ v.second \in 0..58

\* 2020-02-30 10:30:00: the fields decode, the date does not exist
C7_Witness ==
    /\ cin.d = 40 * 512 + 2 * 32 + 30
    /\ cin.t = 10 * 2048 + 30 * 32
    /\ cout.err = "ValueError"
====
